---- MODULE Spec2Model ----
(***************************************************************************)
(* internal/templates/templates.go: the two renderers of the package.      *)
(*                                                                         *)
(* Text is modelled as a sequence of tokens.  A token is an atomic piece   *)
(* of text: a line break, a run of indentation, a "key: " prefix, a double *)
(* quote, a template delimiter, a field reference, or a maximal run of     *)
(* other text.  The Go string "" is the empty sequence, and concatenation  *)
(* of strings is concatenation of sequences.                               *)
(***************************************************************************)
EXTENDS Integers, Sequences, FiniteSets, TLC

VARIABLES
  wt,      \* wt[c]: the WorkflowTemplate object caller c owns (the receiver)
  pc,      \* pc[c]: where caller c stands in WorkflowTemplate.Render
  ret,     \* ret[c]: what c's latest completed Render returned (out, err)
  log,     \* log[c]: the field writes Execute made into buf during that call
  wt0,     \* wt0[c]: the object's fields when the current call was entered
  prev,    \* prev[c]: result and fields at the end of the call before
  ncalls,  \* ncalls[c]: Render calls c has started
  budget,  \* calls each caller may start
  hw,      \* hw[b]: a HardwareProvisionTasks object, constructed with EFIBoot = b
  hwret    \* hwret[b]: what hw[b].Render returned

vars == <<wt, pc, ret, log, wt0, prev, ncalls, budget, hw, hwret>>

\* Bounds of the model.
MaxCalls == 2
ConcCalls == 1
NumCallers == 2

-----------------------------------------------------------------------------
\* The package's errors and the default placeholder.

ErrMissingName == "name can't be empty"

ErrMissingImageURL == "imageURL can't be empty"

Nil == "nil"

\* The placeholder with quotes of its own.
QuotedDeviceTemplateName == <<"\"", "{{", ".device_1", "}}", "\"">>

DefaultDeviceTemplateName == <<"{{", ".device_1", "}}">>

-----------------------------------------------------------------------------
\* The template texts, one line of the source per line.

workflowTemplate ==
  <<"\n",
     "version: ", "\"", "0.1", "\"", "\n",
     "name: ", "{{", ".Name", "}}", "\n",
     "global_timeout: ", "6000", "\n",
     "tasks:", "\n",
     "  ", "- name: ", "\"", "{{", ".Name", "}}", "\"", "\n",
     "    ", "worker: ", "\"", "{{", ".DeviceTemplateName", "}}", "\"", "\n",
     "    ", "volumes:", "\n",
     "      ", "- /dev:/dev", "\n",
     "      ", "- /dev/console:/dev/console", "\n",
     "      ", "- /lib/firmware:/lib/firmware:ro", "\n",
     "    ", "actions:", "\n",
     "      ", "- name: ", "\"", "stream-image", "\"", "\n",
     "        ", "image: ", "quay.io/tinkerbell-actions/image2disk:v1.0.0", "\n",
     "        ", "timeout: ", "600", "\n",
     "        ", "environment:", "\n",
     "          ", "IMG_URL: ", "{{", ".ImageURL", "}}", "\n",
     "          ", "DEST_DISK: ", "{{", ".DestDisk", "}}", "\n",
     "          ", "COMPRESSED: ", "true", "\n",
     "      ", "- name: ", "\"", "create-user", "\"", "\n",
     "        ", "image: ", "quay.io/tinkerbell-actions/cexec:v1.0.0", "\n",
     "        ", "timeout: ", "90", "\n",
     "        ", "environment:", "\n",
     "          ", "BLOCK_DEVICE: ", "{{", ".DestPartition", "}}", "\n",
     "          ", "FS_TYPE: ", "ext4", "\n",
     "          ", "CHROOT: ", "y", "\n",
     "          ", "DEFAULT_INTERPRETER: ", "\"", "/bin/sh -c", "\"", "\n",
     "          ", "CMD_LINE: ", "\"", "useradd -p $(openssl passwd -1 tink) -s /bin/bash -d /home/tink/ -m -G sudo tink", "\"", "\n",
     "      ", "- name: ", "\"", "create-init-script", "\"", "\n",
     "        ", "image: ", "quay.io/tinkerbell-actions/writefile:v1.0.0", "\n",
     "        ", "timeout: ", "90", "\n",
     "        ", "environment:", "\n",
     "            ", "DEST_DISK: ", "{{", ".DestPartition", "}}", "\n",
     "            ", "FS_TYPE: ", "ext4", "\n",
     "            ", "DEST_PATH: ", "/root/cluster-setup.sh", "\n",
     "            ", "UID: ", "0", "\n",
     "            ", "GID: ", "0", "\n",
     "            ", "MODE: ", "0700", "\n",
     "            ", "DIRMODE: ", "0700", "\n",
     "            ", "CONTENTS: ", "|", "\n",
     "              ", "#!/bin/bash", "\n",
     "              ", "tdnf install -y apparmor-parser apparmor-utils", "\n",
     "              ", "iptables -I INPUT -p tcp --dport 6443 -j ACCEPT", "\n",
     "              ", "rm /root/cluster-setup.sh", "\n",
     "      ", "- name: ", "\"", "create-init-script-service", "\"", "\n",
     "        ", "image: ", "quay.io/tinkerbell-actions/writefile:v1.0.0", "\n",
     "        ", "timeout: ", "90", "\n",
     "        ", "environment:", "\n",
     "            ", "DEST_DISK: ", "{{", ".DestPartition", "}}", "\n",
     "            ", "FS_TYPE: ", "ext4", "\n",
     "            ", "DEST_PATH: ", "/usr/local/lib/systemd/system/cluster-setup.service", "\n",
     "            ", "UID: ", "0", "\n",
     "            ", "GID: ", "0", "\n",
     "            ", "MODE: ", "0600", "\n",
     "            ", "DIRMODE: ", "0600", "\n",
     "            ", "CONTENTS: ", "|", "\n",
     "              ", "[Unit]", "\n",
     "              ", "Before=systemd-user-sessions.service", "\n",
     "              ", "Wants=network-online.target", "\n",
     "              ", "After=network-online.target", "\n",
     "              ", "ConditionPathExists=/root/cluster-setup.sh", "\n",
     "              ", "[Service]", "\n",
     "              ", "Type=oneshot", "\n",
     "              ", "ExecStart=/root/cluster-setup.sh", "\n",
     "              ", "RemainAfterExit=yes", "\n",
     "              ", "[Install]", "\n",
     "              ", "WantedBy=multi-user.target", "\n",
     "      ", "- name: ", "\"", "enable-init-script", "\"", "\n",
     "        ", "image: ", "quay.io/tinkerbell-actions/cexec:v1.0.0", "\n",
     "        ", "timeout: ", "90", "\n",
     "        ", "environment:", "\n",
     "            ", "BLOCK_DEVICE: ", "{{", ".DestPartition", "}}", "\n",
     "            ", "FS_TYPE: ", "ext4", "\n",
     "            ", "CHROOT: ", "y", "\n",
     "            ", "DEFAULT_INTERPRETER: ", "\"", "/bin/sh -c", "\"", "\n",
     "            ", "CMD_LINE: ", "\"", "systemctl enable cluster-setup.service", "\"", "\n",
     "      ", "- name: ", "\"", "add-tink-cloud-init-config", "\"", "\n",
     "        ", "image: ", "quay.io/tinkerbell-actions/writefile:v1.0.0", "\n",
     "        ", "timeout: ", "90", "\n",
     "        ", "environment:", "\n",
     "          ", "DEST_DISK: ", "{{", ".DestPartition", "}}", "\n",
     "          ", "FS_TYPE: ", "ext4", "\n",
     "          ", "DEST_PATH: ", "/etc/cloud/cloud.cfg.d/10_tinkerbell.cfg", "\n",
     "          ", "UID: ", "0", "\n",
     "          ", "GID: ", "0", "\n",
     "          ", "MODE: ", "0600", "\n",
     "          ", "DIRMODE: ", "0700", "\n",
     "          ", "CONTENTS: ", "|", "\n",
     "            ", "datasource:", "\n",
     "              ", "Ec2:", "\n",
     "                ", "metadata_urls: ", "[", "\"", "{{", ".MetadataURL", "}}", "\"", "]", "\n",
     "                ", "strict_id: ", "false", "\n",
     "            ", "system_info:", "\n",
     "              ", "default_user:", "\n",
     "                ", "name: ", "tink", "\n",
     "                ", "groups: ", "[wheel, adm]", "\n",
     "                ", "sudo: ", "[", "\"", "ALL=(ALL) NOPASSWD:ALL", "\"", "]", "\n",
     "                ", "shell: ", "/bin/bash", "\n",
     "            ", "manage_etc_hosts: ", "localhost", "\n",
     "            ", "warnings:", "\n",
     "              ", "dsid_missing_source: ", "off", "\n",
     "      ", "- name: ", "\"", "add-tink-cloud-init-ds-config", "\"", "\n",
     "        ", "image: ", "quay.io/tinkerbell-actions/writefile:v1.0.0", "\n",
     "        ", "timeout: ", "90", "\n",
     "        ", "environment:", "\n",
     "          ", "DEST_DISK: ", "{{", ".DestPartition", "}}", "\n",
     "          ", "FS_TYPE: ", "ext4", "\n",
     "          ", "DEST_PATH: ", "/etc/cloud/ds-identify.cfg", "\n",
     "          ", "UID: ", "0", "\n",
     "          ", "GID: ", "0", "\n",
     "          ", "MODE: ", "0600", "\n",
     "          ", "DIRMODE: ", "0700", "\n",
     "          ", "CONTENTS: ", "|", "\n",
     "            ", "datasource: ", "Ec2", "\n",
     "      ", "- name: ", "\"", "kexec-image", "\"", "\n",
     "        ", "image: ", "quay.io/tinkerbell-actions/kexec:v1.0.0", "\n",
     "        ", "timeout: ", "90", "\n",
     "        ", "pid: ", "host", "\n",
     "        ", "environment:", "\n",
     "          ", "BLOCK_DEVICE: ", "{{", ".DestPartition", "}}", "\n",
     "          ", "FS_TYPE: ", "ext4", "\n",
     "          ", "KERNEL_PATH: ", "/boot/vmlinuz-5.15.86.1-1.cm2", "\n",
     "          ", "INITRD_PATH: ", "/boot/initrd.img-5.15.86.1-1.cm2", "\n",
     "          ", "CMD_LINE: ", "\"", "root=", "{{", ".DestPartition", "}}", " rw", "\"", "\n" >>

hardwareProvisionTasks ==
  <<"\n",
     "- powerAction: ", "\"", "off", "\"", "\n",
     "- oneTimeBootDeviceAction:", "\n",
     "    ", "device:", "\n",
     "    ", "- pxe", "\n",
     "    ", "efiBoot: ", "{{", ".EFIBoot", "}}", "\n",
     "- powerAction: ", "\"", "on", "\"", "\n" >>

-----------------------------------------------------------------------------
\* text/template, as far as the two templates use it.

\* The lexer: ".Ident" inside an action is a field of dot.
Identifier ==
  (".Name" :> "Name") @@ (".MetadataURL" :> "MetadataURL") @@
  (".ImageURL" :> "ImageURL") @@ (".DestDisk" :> "DestDisk") @@
  (".DestPartition" :> "DestPartition") @@
  (".DeviceTemplateName" :> "DeviceTemplateName") @@
  (".EFIBoot" :> "EFIBoot") @@ (".device_1" :> "device_1")

TextNode(t) == [type |-> "text", text |-> t]

FieldNode(id) == [type |-> "field", text |-> id]

\* One token of the template text.  Outside an action a token is text, up to
\* the left delimiter; inside, a field reference and then the right
\* delimiter must follow, else the parse fails.
ParseStep(st, tok) ==
  IF st.err # Nil THEN st
  ELSE IF st.mode = "text"
       THEN IF tok = "{{"
            THEN [st EXCEPT !.mode = "action"]
            ELSE [st EXCEPT !.tree = Append(@, TextNode(tok))]
       ELSE IF st.mode = "action"
            THEN IF tok \in DOMAIN Identifier
                 THEN [st EXCEPT !.mode = "close", !.id = Identifier[tok]]
                 ELSE [st EXCEPT !.err = "unable to parse template"]
            ELSE IF tok = "}}"
                 THEN [st EXCEPT !.mode = "text",
                                 !.tree = Append(@, FieldNode(st.id))]
                 ELSE [st EXCEPT !.err = "unable to parse template"]

\* The tokens lo..hi in order, the range halved to keep the evaluation shallow.
RECURSIVE ParseRange(_, _, _, _)
ParseRange(text, lo, hi, st) ==
  IF lo > hi THEN st
  ELSE IF lo = hi THEN ParseStep(st, text[lo])
  ELSE LET mid == (lo + hi) \div 2
           left == ParseRange(text, lo, mid, st)
       IN  IF left.err # Nil THEN left
           ELSE ParseRange(text, mid + 1, hi, left)

\* template.New("template").Parse(text): only the template text is parsed,
\* before any value is substituted.  An action left open is an error.
Parse(text) ==
  LET st == ParseRange(text, 1, Len(text),
                       [err |-> Nil, mode |-> "text", id |-> "", tree |-> <<>>])
  IN  IF st.err = Nil /\ st.mode # "text"
      THEN [err |-> "unable to parse template", tree |-> st.tree]
      ELSE [err |-> st.err, tree |-> st.tree]

\* PrintValue as html/template would print: the value escaped for HTML.
PrintValueEscaped(dot, id) ==
  IF id = "EFIBoot"
  THEN (IF dot[id] THEN <<"true">> ELSE <<"false">>)
  ELSE [i \in 1..Len(dot[id]) |->
          IF dot[id][i] = "\"" THEN "&#34;" ELSE dot[id][i]]

\* PrintValue with a bool printed as a number.
PrintValueNumeric(dot, id) ==
  IF id = "EFIBoot"
  THEN (IF dot[id] THEN <<"1">> ELSE <<"0">>)
  ELSE dot[id]

\* fmt.Fprint of a field's value: a string as it is, a bool as true or false.
PrintValue(dot, id) ==
  IF id = "EFIBoot"
  THEN (IF dot[id] THEN <<"true">> ELSE <<"false">>)
  ELSE dot[id]

\* Evaluating .Ident on dot fails when the struct has no such field.
HasField(dot, id) == id \in DOMAIN dot

\* One node: its text, or its field's value, is written to buf as it is.
\* The first error stops the walk.  log records, for each field node, where
\* in buf its value went.
ExecuteStep(st, dot, node) ==
  IF st.err # Nil THEN st
  ELSE IF node.type = "text"
       THEN [st EXCEPT !.buf = Append(@, node.text)]
       ELSE IF ~HasField(dot, node.text)
            THEN [st EXCEPT !.err = "unable to execute template"]
            ELSE [st EXCEPT
                    !.buf = @ \o PrintValue(dot, node.text),
                    !.log = Append(@, [field |-> node.text,
                                       at |-> Len(st.buf),
                                       text |-> PrintValue(dot, node.text)])]

RECURSIVE ExecuteRange(_, _, _, _, _)
ExecuteRange(tree, dot, lo, hi, st) ==
  IF lo > hi THEN st
  ELSE IF lo = hi THEN ExecuteStep(st, dot, tree[lo])
  ELSE LET mid == (lo + hi) \div 2
           left == ExecuteRange(tree, dot, lo, mid, st)
       IN  IF left.err # Nil THEN left
           ELSE ExecuteRange(tree, dot, mid + 1, hi, left)

\* tpl.Execute(buf, dot)
Execute(tree, dot, buf) ==
  ExecuteRange(tree, dot, 1, Len(tree), [buf |-> buf, log |-> <<>>, err |-> Nil])

\* RenderTemplate with the rendered text put through the template pass again.
RenderTemplateTwice(text, dot) ==
  LET tpl == Parse(text) IN
    IF tpl.err # Nil
    THEN [out |-> <<>>, err |-> tpl.err, log |-> <<>>]
    ELSE LET ex == Execute(tpl.tree, dot, <<>>) IN
           IF ex.err # Nil
           THEN [out |-> <<>>, err |-> ex.err, log |-> <<>>]
           ELSE LET tpl2 == Parse(ex.buf) IN
                  IF tpl2.err # Nil
                  THEN [out |-> <<>>, err |-> tpl2.err, log |-> <<>>]
                  ELSE LET ex2 == Execute(tpl2.tree, dot, <<>>) IN
                         IF ex2.err # Nil
                         THEN [out |-> <<>>, err |-> ex2.err, log |-> <<>>]
                         ELSE [out |-> ex2.buf, err |-> Nil, log |-> ex2.log]

\* Lines 61-73 and 211-223: parse the template, execute it into a fresh
\* buffer, return the buffer's text; on either error return "" and the error.
RenderTemplate(text, dot) ==
  LET tpl == Parse(text) IN
    IF tpl.err # Nil
    THEN [out |-> <<>>, err |-> tpl.err, log |-> <<>>]
    ELSE LET ex == Execute(tpl.tree, dot, <<>>) IN
           IF ex.err # Nil
           THEN [out |-> <<>>, err |-> ex.err, log |-> <<>>]
           ELSE [out |-> ex.buf, err |-> Nil, log |-> ex.log]

-----------------------------------------------------------------------------
\* The objects callers construct.

Names == { <<>>, <<"m1">>, <<"m1", "\"", "m1">> }

ImageURLs == { <<>>, <<"http://x/img">> }

DestDisks == { <<>>, <<"/dev/sda">>, <<"/dev/sda", "\n", "m1">> }

DestPartitions == { <<>>, <<"/dev/sda1">>, <<"/dev/sda1", "\"", "m1">> }

MetadataURLs == { <<>>, <<"http://meta">>, <<"{{", ".Name", "}}">> }

DeviceTemplateNames ==
  { <<>>, <<"worker-1">>, <<"{{", ".device_1", "}}">>, <<"{{", ".Name", "}}">> }

WorkflowTemplate ==
  [Name : Names, MetadataURL : MetadataURLs, ImageURL : ImageURLs,
   DestDisk : DestDisks, DestPartition : DestPartitions,
   DeviceTemplateName : DeviceTemplateNames]

\* The objects of the concurrent callers: one per outcome of the two checks,
\* each with the DeviceTemplateName left empty.
ConcurrentTemplates ==
  { w \in WorkflowTemplate :
      /\ <<w.Name, w.ImageURL>> \in { << <<>>, <<"http://x/img">> >>,
                                      << <<"m1">>, <<>> >>,
                                      << <<"m1">>, <<"http://x/img">> >> }
      /\ w.DestDisk = <<"/dev/sda">>
      /\ w.DestPartition = <<"/dev/sda1">>
      /\ w.MetadataURL = <<"http://meta">>
      /\ w.DeviceTemplateName = <<>> }

HardwareProvisionTasks == [EFIBoot : BOOLEAN]

NoResult == [out |-> <<>>, err |-> "none"]

Callers == DOMAIN wt

InitWith(n, objects, calls) ==
  /\ wt \in [1..n -> objects]
  /\ wt0 = wt
  /\ pc = [c \in 1..n |-> "idle"]
  /\ ret = [c \in 1..n |-> NoResult]
  /\ log = [c \in 1..n |-> <<>>]
  /\ prev = [c \in 1..n |-> [ret |-> NoResult, wt |-> wt[c]]]
  /\ ncalls = [c \in 1..n |-> 0]
  /\ budget = calls
  /\ hw = [b \in BOOLEAN |-> [EFIBoot |-> b]]
  /\ hwret = [b \in BOOLEAN |-> NoResult]

Init == InitWith(1, WorkflowTemplate, MaxCalls)

InitConcurrent == InitWith(NumCallers, ConcurrentTemplates, ConcCalls)

-----------------------------------------------------------------------------
\* WorkflowTemplate.Render, one action per step of the method.

\* The caller invokes wt.Render().
Call(c) ==
  /\ pc[c] \in {"idle", "done"}
  /\ ncalls[c] < budget
  /\ pc' = [pc EXCEPT ![c] = "checkName"]
  /\ ncalls' = [ncalls EXCEPT ![c] = @ + 1]
  /\ wt0' = [wt0 EXCEPT ![c] = wt[c]]
  /\ prev' = [prev EXCEPT ![c] = [ret |-> ret[c], wt |-> wt[c]]]
  /\ UNCHANGED <<wt, ret, log, budget, hw, hwret>>

\* return out, err
Return(c, out, err, lg) ==
  /\ ret' = [ret EXCEPT ![c] = [out |-> out, err |-> err]]
  /\ log' = [log EXCEPT ![c] = lg]
  /\ pc' = [pc EXCEPT ![c] = "done"]

\* CheckName with the two checks in the other order.
CheckNameAfterImageURL(c) ==
  /\ pc[c] = "checkName"
  /\ IF wt[c].ImageURL = <<>>
     THEN Return(c, <<>>, ErrMissingImageURL, <<>>)
     ELSE IF wt[c].Name = <<>>
          THEN Return(c, <<>>, ErrMissingName, <<>>)
          ELSE /\ pc' = [pc EXCEPT ![c] = "checkImageURL"]
               /\ UNCHANGED <<ret, log>>
  /\ UNCHANGED <<wt, wt0, prev, ncalls, budget, hw, hwret>>

\* CheckName with the default filled in on entry, before the checks.
CheckNameFillsFirst(c) ==
  /\ pc[c] = "checkName"
  /\ wt' = IF wt[c].DeviceTemplateName = <<>>
           THEN [wt EXCEPT ![c].DeviceTemplateName = DefaultDeviceTemplateName]
           ELSE wt
  /\ IF wt[c].Name = <<>>
     THEN Return(c, <<>>, ErrMissingName, <<>>)
     ELSE /\ pc' = [pc EXCEPT ![c] = "checkImageURL"]
          /\ UNCHANGED <<ret, log>>
  /\ UNCHANGED <<wt0, prev, ncalls, budget, hw, hwret>>

\* if wt.Name == "" { return "", ErrMissingName }
CheckName(c) ==
  /\ pc[c] = "checkName"
  /\ IF wt[c].Name = <<>>
     THEN Return(c, <<>>, ErrMissingName, <<>>)
     ELSE /\ pc' = [pc EXCEPT ![c] = "checkImageURL"]
          /\ UNCHANGED <<ret, log>>
  /\ UNCHANGED <<wt, wt0, prev, ncalls, budget, hw, hwret>>

\* CheckImageURL testing the wrong field.
CheckImageURLWrongField(c) ==
  /\ pc[c] = "checkImageURL"
  /\ IF wt[c].MetadataURL = <<>>
     THEN Return(c, <<>>, ErrMissingImageURL, <<>>)
     ELSE /\ pc' = [pc EXCEPT ![c] = "defaultFill"]
          /\ UNCHANGED <<ret, log>>
  /\ UNCHANGED <<wt, wt0, prev, ncalls, budget, hw, hwret>>

\* if wt.ImageURL == "" { return "", ErrMissingImageURL }
CheckImageURL(c) ==
  /\ pc[c] = "checkImageURL"
  /\ IF wt[c].ImageURL = <<>>
     THEN Return(c, <<>>, ErrMissingImageURL, <<>>)
     ELSE /\ pc' = [pc EXCEPT ![c] = "defaultFill"]
          /\ UNCHANGED <<ret, log>>
  /\ UNCHANGED <<wt, wt0, prev, ncalls, budget, hw, hwret>>

\* DefaultFill that leaves an empty DeviceTemplateName as it is.
DefaultFillSkipped(c) ==
  /\ pc[c] = "defaultFill"
  /\ pc' = [pc EXCEPT ![c] = "template"]
  /\ UNCHANGED <<wt, ret, log, wt0, prev, ncalls, budget, hw, hwret>>

\* DefaultFill storing the default in every object, as if the receiver were
\* one shared instance.
DefaultFillShared(c) ==
  /\ pc[c] = "defaultFill"
  /\ wt' = IF wt[c].DeviceTemplateName = <<>>
           THEN [d \in DOMAIN wt |->
                   IF wt[d].DeviceTemplateName = <<>>
                   THEN [wt[d] EXCEPT !.DeviceTemplateName = DefaultDeviceTemplateName]
                   ELSE wt[d]]
           ELSE wt
  /\ pc' = [pc EXCEPT ![c] = "template"]
  /\ UNCHANGED <<ret, log, wt0, prev, ncalls, budget, hw, hwret>>

\* if wt.DeviceTemplateName == "" { wt.DeviceTemplateName = "{{.device_1}}" }
DefaultFill(c) ==
  /\ pc[c] = "defaultFill"
  /\ wt' = IF wt[c].DeviceTemplateName = <<>>
           THEN [wt EXCEPT ![c].DeviceTemplateName = DefaultDeviceTemplateName]
           ELSE wt
  /\ pc' = [pc EXCEPT ![c] = "template"]
  /\ UNCHANGED <<ret, log, wt0, prev, ncalls, budget, hw, hwret>>

\* Substitute executing into a buffer kept from the call before.
SubstituteReusedBuffer(c) ==
  /\ pc[c] = "template"
  /\ LET tpl == Parse(workflowTemplate)
         ex == Execute(tpl.tree, wt[c], ret[c].out)
     IN  IF tpl.err # Nil THEN Return(c, <<>>, tpl.err, <<>>)
         ELSE IF ex.err # Nil THEN Return(c, <<>>, ex.err, <<>>)
         ELSE Return(c, ex.buf, Nil, ex.log)
  /\ UNCHANGED <<wt, wt0, prev, ncalls, budget, hw, hwret>>

\* Parse workflowTemplate, execute it against wt, return the text.
Substitute(c) ==
  /\ pc[c] = "template"
  /\ LET r == RenderTemplate(workflowTemplate, wt[c]) IN
       Return(c, r.out, r.err, r.log)
  /\ UNCHANGED <<wt, wt0, prev, ncalls, budget, hw, hwret>>

\* HardwareProvisionTasks.Render on the object constructed with EFIBoot = b.
HardwareRender(b) ==
  /\ LET r == RenderTemplate(hardwareProvisionTasks, hw[b]) IN
       hwret' = [hwret EXCEPT ![b] = [out |-> r.out, err |-> r.err]]
  /\ UNCHANGED <<wt, pc, ret, log, wt0, prev, ncalls, budget, hw>>

Next ==
  \/ \E c \in Callers : Call(c)
  \/ \E c \in Callers : CheckName(c)
  \/ \E c \in Callers : CheckImageURL(c)
  \/ \E c \in Callers : DefaultFill(c)
  \/ \E c \in Callers : Substitute(c)
  \/ \E b \in BOOLEAN : HardwareRender(b)

NextConcurrent ==
  \/ \E c \in Callers : Call(c)
  \/ \E c \in Callers : CheckName(c)
  \/ \E c \in Callers : CheckImageURL(c)
  \/ \E c \in Callers : DefaultFill(c)
  \/ \E c \in Callers : Substitute(c)

\* One caller, every object, and the hardware renderer.
Spec == Init /\ [][Next]_vars

\* Several callers, each with an object of its own, in every interleaving.
SpecConcurrent == InitConcurrent /\ [][NextConcurrent]_vars

-----------------------------------------------------------------------------
\* Reading a rendered text.

Done(c) == pc[c] = "done"

Succeeded(c) == Done(c) /\ ret[c].err = Nil

Placeholder == <<"{{", ".device_1", "}}">>

Max(S) == CHOOSE x \in S : \A y \in S : y <= x

\* The "key: " prefixes of the two templates.
Keys ==
  {"- name: ", "- powerAction: ", "BLOCK_DEVICE: ", "CHROOT: ", "CMD_LINE: ",
   "COMPRESSED: ", "CONTENTS: ", "DEFAULT_INTERPRETER: ", "DEST_DISK: ",
   "DEST_PATH: ", "DIRMODE: ", "FS_TYPE: ", "GID: ", "IMG_URL: ",
   "INITRD_PATH: ", "KERNEL_PATH: ", "MODE: ", "UID: ", "datasource: ",
   "dsid_missing_source: ", "efiBoot: ", "global_timeout: ", "groups: ",
   "image: ", "manage_etc_hosts: ", "metadata_urls: ", "name: ", "pid: ",
   "shell: ", "strict_id: ", "sudo: ", "timeout: ", "version: ", "worker: "}

\* Runs of indentation; the column of the text after one is its length.
Indents ==
  {"  ", "    ", "      ", "        ", "          ", "            ",
   "              ", "                "}

\* Plain single-line text: letters, digits, '/', '.', '-', and ':' inside it.
Words == {"m1", "http://x/img", "/dev/sda", "/dev/sda1", "http://meta", "worker-1"}

IsPlain(v) == \A i \in 1..Len(v) : v[i] \in Words

\* Positions of the action entries: "- name: " at the indentation of the
\* task's actions list, at the start of a line.
ActionAt(out, i) ==
  /\ i > 2
  /\ i + 3 <= Len(out)
  /\ out[i] = "- name: "
  /\ out[i - 1] = "      "
  /\ out[i - 2] = "\n"
  /\ out[i + 1] = "\""
  /\ out[i + 3] = "\""

\* The names of the actions, in the order of the text.
ActionNames(out) ==
  LET at == SelectSeq([i \in 1..Len(out) |-> i], LAMBDA i : ActionAt(out, i))
  IN  [k \in 1..Len(at) |-> out[at[k] + 2]]

\* The action whose entry is the last before position p ("" above the first).
ActionBefore(out, p) ==
  LET S == {i \in 1..p : ActionAt(out, i)}
  IN  IF S = {} THEN "" ELSE out[Max(S) + 2]

\* The last "key: " prefix at or before position p.
KeyBefore(out, p) ==
  LET S == {i \in 1..p : out[i] \in Keys}
  IN  IF S = {} THEN "" ELSE out[Max(S)]

\* What stands in the text where the k-th field write went: the action and
\* the key it is under, the token just before it, and the text itself.
Slot(out, lg, k) ==
  [action |-> ActionBefore(out, lg[k].at),
   key    |-> KeyBefore(out, lg[k].at),
   before |-> out[lg[k].at],
   value  |-> SubSeq(out, lg[k].at + 1, lg[k].at + Len(lg[k].text))]

Slots(out, lg) == [k \in 1..Len(lg) |-> Slot(out, lg, k)]

At(action, key, before, value) ==
  [action |-> action, key |-> key, before |-> before, value |-> value]

-----------------------------------------------------------------------------
\* A reader of the YAML the templates produce: block mappings and sequences,
\* one entry per line, with plain, double-quoted and literal-block scalars.
\* The templates' own structure lines are taken as they stand; the reader
\* decides what substituted text does to the scalars and lines around it.

YamlFail(st) == [st EXCEPT !.ok = FALSE]

\* The first token of a line's text, at column st.col.
YamlLineStart(st, t) ==
  IF st.blk >= 0 /\ st.col > st.blk
  THEN [st EXCEPT !.mode = "block"]              \* a line of a literal block
  ELSE IF t \in Keys
       THEN [st EXCEPT !.mode = "value", !.blk = -1]
       ELSE IF t \in Words \cup {"\"", "{{", "}}", "|"} \cup DOMAIN Identifier
            THEN YamlFail(st)                    \* a scalar where an entry must start
            ELSE [st EXCEPT !.mode = "plain", !.blk = -1]

YamlStep(st, t) ==
  IF ~st.ok THEN st
  ELSE CASE st.mode = "dq" ->                    \* inside "...", lines included
              IF t = "\"" THEN [st EXCEPT !.mode = "after"] ELSE st
         [] st.mode = "after" ->                 \* after the closing quote
              IF t = "\n" THEN [st EXCEPT !.mode = "bol"] ELSE YamlFail(st)
         [] st.mode = "block" ->
              IF t = "\n" THEN [st EXCEPT !.mode = "bol"] ELSE st
         [] st.mode = "plain" ->
              IF t = "\n" THEN [st EXCEPT !.mode = "bol"]
              ELSE IF t \in Keys THEN YamlFail(st) ELSE st
         [] st.mode = "value" ->                 \* right after "key: "
              IF t = "\n" THEN [st EXCEPT !.mode = "bol"]
              ELSE IF t = "\"" THEN [st EXCEPT !.mode = "dq"]
              ELSE IF t = "|" THEN [st EXCEPT !.mode = "plain", !.blk = st.col]
              ELSE IF t \in {"{{", "}}"} THEN YamlFail(st)
              ELSE [st EXCEPT !.mode = "plain"]
         [] st.mode = "bol" ->                   \* at the beginning of a line
              IF t = "\n" THEN st
              ELSE IF t \in Indents THEN [st EXCEPT !.mode = "start", !.col = Len(t)]
              ELSE YamlLineStart([st EXCEPT !.col = 0], t)
         [] OTHER ->                             \* "start": after the indentation
              IF t = "\n" THEN [st EXCEPT !.mode = "bol"]
              ELSE YamlLineStart(st, t)

RECURSIVE YamlRange(_, _, _, _)
YamlRange(out, lo, hi, st) ==
  IF lo > hi THEN st
  ELSE IF lo = hi THEN YamlStep(st, out[lo])
  ELSE LET mid == (lo + hi) \div 2
           left == YamlRange(out, lo, mid, st)
       IN  IF ~left.ok THEN left ELSE YamlRange(out, mid + 1, hi, left)

ValidYAML(out) ==
  LET st == YamlRange(out, 1, Len(out),
                      [ok |-> TRUE, mode |-> "bol", col |-> 0, blk |-> -1])
  IN  st.ok /\ st.mode # "dq"

-----------------------------------------------------------------------------
\* WorkflowTemplate.Render run alone on an object with the fields w.

Filled(w) ==
  IF w.DeviceTemplateName = <<>>
  THEN [w EXCEPT !.DeviceTemplateName = Placeholder]
  ELSE w

RenderAlone(w) ==
  IF w.Name = <<>>
  THEN [ret |-> [out |-> <<>>, err |-> ErrMissingName], wt |-> w]
  ELSE IF w.ImageURL = <<>>
  THEN [ret |-> [out |-> <<>>, err |-> ErrMissingImageURL], wt |-> w]
  ELSE LET r == RenderTemplate(workflowTemplate, Filled(w))
       IN  [ret |-> [out |-> r.out, err |-> r.err], wt |-> Filled(w)]

-----------------------------------------------------------------------------
\* C1: a Render of an object whose Name is empty returns ErrMissingName and
\* the empty text, whatever the other fields hold; with ImageURL empty too
\* the error is still ErrMissingName.
C1_MissingName ==
  \A c \in Callers :
    (Done(c) /\ wt0[c].Name = <<>>) =>
      ret[c] = [out |-> <<>>, err |-> ErrMissingName]

C1_Witness ==
  \E c \in Callers :
    /\ Done(c)
    /\ wt0[c].Name = <<>>
    /\ wt0[c].ImageURL = <<>>
    /\ ret[c].err = ErrMissingName

\* C2: a Render of an object with a Name and an empty ImageURL returns
\* ErrMissingImageURL and the empty text, whatever MetadataURL, DestDisk,
\* DestPartition and DeviceTemplateName hold.
C2_MissingImageURL ==
  \A c \in Callers :
    (Done(c) /\ wt0[c].Name # <<>> /\ wt0[c].ImageURL = <<>>) =>
      ret[c] = [out |-> <<>>, err |-> ErrMissingImageURL]

C2_Witness ==
  \E c \in Callers :
    /\ Done(c)
    /\ wt0[c].Name # <<>>
    /\ wt0[c].ImageURL = <<>>
    /\ wt0[c].MetadataURL = <<>>
    /\ wt0[c].DeviceTemplateName # <<>>
    /\ ret[c].err = ErrMissingImageURL

\* C3: Render changes the object only by filling an empty DeviceTemplateName,
\* and only once both checks have passed: while the checks run and after a
\* failed call every field is as it was on entry; at every point of a call
\* Name, MetadataURL, ImageURL, DestDisk and DestPartition are as on entry,
\* and so is a DeviceTemplateName that was not empty.
C3_Frame ==
  \A c \in Callers :
    /\ wt[c].Name = wt0[c].Name
    /\ wt[c].MetadataURL = wt0[c].MetadataURL
    /\ wt[c].ImageURL = wt0[c].ImageURL
    /\ wt[c].DestDisk = wt0[c].DestDisk
    /\ wt[c].DestPartition = wt0[c].DestPartition
    /\ wt0[c].DeviceTemplateName # <<>> =>
         wt[c].DeviceTemplateName = wt0[c].DeviceTemplateName
    /\ pc[c] \in {"checkName", "checkImageURL", "defaultFill"} => wt[c] = wt0[c]
    /\ (Done(c) /\ ret[c].err \in {ErrMissingName, ErrMissingImageURL}) =>
         wt[c] = wt0[c]

C3_Witness ==
  \E c \in Callers :
    /\ Done(c)
    /\ ret[c].err = ErrMissingImageURL
    /\ wt0[c].DeviceTemplateName = <<>>
    /\ wt[c].DeviceTemplateName = <<>>

\* C4: after a Render of an object with a Name, an ImageURL and an empty
\* DeviceTemplateName, the object's DeviceTemplateName is the text
\* {{.device_1}}, and the output holds that text, as it is, between the
\* quotes of the task's worker entry.
C4_DefaultFill ==
  \A c \in Callers :
    (Done(c) /\ wt0[c].Name # <<>> /\ wt0[c].ImageURL # <<>>
             /\ wt0[c].DeviceTemplateName = <<>>) =>
      /\ wt[c].DeviceTemplateName = Placeholder
      /\ ret[c].err = Nil
      /\ \E k \in 1..Len(log[c]) :
           /\ log[c][k].field = "DeviceTemplateName"
           /\ Slot(ret[c].out, log[c], k) = At("", "worker: ", "\"", Placeholder)
           /\ ret[c].out[log[c][k].at - 1] = "worker: "
           /\ ret[c].out[log[c][k].at + 4] = "\""
           /\ ret[c].out[log[c][k].at + 5] = "\n"

C4_Witness ==
  \E c \in Callers :
    /\ Succeeded(c)
    /\ wt0[c].DeviceTemplateName = <<>>
    /\ wt[c].DeviceTemplateName = Placeholder

\* C5: a second Render of the same object returns what the first returned,
\* and leaves the fields as the first left them.
C5_Idempotent ==
  \A c \in Callers :
    (Done(c) /\ ncalls[c] >= 2) =>
      /\ ret[c] = prev[c].ret
      /\ wt[c] = prev[c].wt

C5_Witness ==
  \E c \in Callers :
    /\ Succeeded(c)
    /\ ncalls[c] = 2
    /\ wt0[c].DeviceTemplateName = Placeholder
    /\ prev[c].ret.err = Nil
    /\ prev[c].ret.out # <<>>

\* The hardware job's text for an EFIBoot flag printed as efi.
HardwareJob(efi) ==
  <<"\n",
    "- powerAction: ", "\"", "off", "\"", "\n",
    "- oneTimeBootDeviceAction:", "\n",
    "    ", "device:", "\n",
    "    ", "- pxe", "\n",
    "    ", "efiBoot: ", efi, "\n",
    "- powerAction: ", "\"", "on", "\"", "\n">>

\* C6: HardwareProvisionTasks.Render succeeds for both values of EFIBoot; its
\* output is the three steps powerAction "off", oneTimeBootDeviceAction with
\* device [pxe] and efiBoot equal to the flag, powerAction "on", in this
\* order; the outputs for true and false differ in the efiBoot value only;
\* the receiver's EFIBoot is as it was.
C6_HardwareTasks ==
  /\ \A b \in BOOLEAN :
       hwret[b] # NoResult =>
         /\ hwret[b].err = Nil
         /\ hwret[b].out = HardwareJob(IF b THEN "true" ELSE "false")
         /\ hw[b].EFIBoot = b
  /\ (hwret[TRUE] # NoResult /\ hwret[FALSE] # NoResult) =>
       /\ Len(hwret[TRUE].out) = Len(hwret[FALSE].out)
       /\ \A i \in 1..Len(hwret[TRUE].out) :
            hwret[TRUE].out[i] # hwret[FALSE].out[i] =>
              (i > 1 /\ hwret[TRUE].out[i - 1] = "efiBoot: ")

C6_Witness ==
  /\ hwret[TRUE].err = Nil
  /\ hwret[FALSE].err = Nil
  /\ hwret[TRUE].out # hwret[FALSE].out

C8_AlwaysValidYAML ==
  /\ \A c \in Callers : Succeeded(c) => ValidYAML(ret[c].out)
  /\ \A b \in BOOLEAN : hwret[b] # NoResult => ValidYAML(hwret[b].out)

\* The fields of w are plain single-line text; DeviceTemplateName may also be
\* empty or the placeholder.
PlainFields(w) ==
  /\ IsPlain(w.Name)
  /\ IsPlain(w.ImageURL)
  /\ IsPlain(w.DestDisk)
  /\ IsPlain(w.DestPartition)
  /\ IsPlain(w.MetadataURL)
  /\ IsPlain(w.DeviceTemplateName) \/ w.DeviceTemplateName = Placeholder

\* C8, amended: HardwareProvisionTasks.Render returns valid YAML for both
\* flags, and WorkflowTemplate.Render returns valid YAML when it succeeds on
\* an object whose fields are plain single-line text (DeviceTemplateName
\* empty or the placeholder {{.device_1}} included).
C8_ValidYAMLForPlainFields ==
  /\ \A c \in Callers :
       (Succeeded(c) /\ PlainFields(wt0[c])) => ValidYAML(ret[c].out)
  /\ \A b \in BOOLEAN : hwret[b] # NoResult => ValidYAML(hwret[b].out)

C8_Witness ==
  /\ \E c \in Callers :
       /\ Succeeded(c)
       /\ PlainFields(wt0[c])
       /\ wt0[c].DeviceTemplateName = <<>>
       /\ wt0[c].DestDisk = <<>>
       /\ ValidYAML(ret[c].out)
  /\ hwret[TRUE] # NoResult
  /\ ValidYAML(hwret[TRUE].out)

\* C9: with several callers, each rendering an object of its own, in every
\* interleaving of their steps: a finished call returned what the call run
\* alone returns and left the fields it leaves; and at every step a caller's
\* object is what its own call has made of it so far, so no other caller's
\* default-fill reached it.
C9_Independent ==
  \A c \in Callers :
    /\ Done(c) =>
         LET alone == RenderAlone(wt0[c])
         IN  ret[c] = alone.ret /\ wt[c] = alone.wt
    /\ pc[c] \in {"idle", "checkName", "checkImageURL", "defaultFill"} =>
         wt[c] = wt0[c]
    /\ pc[c] = "template" => wt[c] = Filled(wt0[c])

C9_Witness ==
  \E c, d \in Callers :
    /\ c # d
    /\ Succeeded(c)
    /\ wt0[c].DeviceTemplateName = <<>>
    /\ wt[c].DeviceTemplateName = Placeholder
    /\ Done(d)
    /\ ret[d].err = ErrMissingName
    /\ wt0[d].DeviceTemplateName = <<>>
    /\ wt[d].DeviceTemplateName = <<>>

\* C10: Render returns an error exactly when Name or ImageURL is empty; with
\* both present it returns no error and a text that is not empty; with an
\* error the text is empty.
C10_ErrorIff ==
  \A c \in Callers :
    Done(c) =>
      /\ ret[c].err # Nil <=> (wt0[c].Name = <<>> \/ wt0[c].ImageURL = <<>>)
      /\ ret[c].err = Nil => ret[c].out # <<>>
      /\ ret[c].err # Nil => ret[c].out = <<>>

C10_Witness ==
  \E c \in Callers :
    /\ Succeeded(c)
    /\ wt0[c].DeviceTemplateName = <<>>
    /\ wt0[c].MetadataURL = <<"{{", ".Name", "}}">>
    /\ ret[c].out # <<>>
====
